---- MODULE Spec2Model ----
(***************************************************************************)
(* Bundling and padding of queued packets (goodcrypto.mail.message.bundle) *)
(* and the packet file format (goodcrypto.mail.message.metadata).          *)
(*                                                                         *)
(* Text is a sequence of tokens.  Addresses are spelled character by       *)
(* character, so that str.find can match a keyword inside an address the   *)
(* way it does on the real bytes.                                          *)
(***************************************************************************)
EXTENDS Naturals, Integers, Sequences, FiniteSets, Bags, TLC

(***************************************************************************)
(* Bounds of the model.                                                    *)
(***************************************************************************)
\* number of packets the producers write in one behaviour
MaxPackets == 2
\* the per-packet bounce counter saturates here
MaxBounces == 2
\* number of packets the producers write in a behaviour of SpecOneDomain
MaxFifoPackets == 3
\* number of packets the producers write in a behaviour of CadenceSpec
MaxCadencePackets == 1
\* number of packetize calls in a behaviour of WriteSpec
MaxWritePackets == 2

(***************************************************************************)
(* Python string primitives used by metadata.py                            *)
(***************************************************************************)
Min(a, b) == IF a < b THEN a ELSE b

Max(a, b) == IF a < b THEN b ELSE a

\* s.find(sub): the least 0-based index where sub occurs in s, or -1
Find(s, sub) ==
    LET hits == {i \in 0..(Len(s) - Len(sub)) : SubSeq(s, i + 1, i + Len(sub)) = sub}
    IN  IF hits = {} THEN -1 ELSE CHOOSE i \in hits : \A j \in hits : i <= j

\* s[i:] for i >= 0
SliceFrom(s, i) == SubSeq(s, i + 1, Len(s))

\* s[:j]; a negative j counts from the end, as find's -1 does
SliceTo(s, j) == IF j >= 0 THEN SubSeq(s, 1, Min(j, Len(s)))
                 ELSE SubSeq(s, 1, Max(Len(s) + j, 0))

\* s.endswith(suffix)
EndsWith(s, suffix) ==
    /\ Len(suffix) <= Len(s)
    /\ SubSeq(s, Len(s) - Len(suffix) + 1, Len(s)) = suffix

RECURSIVE Split(_, _)
\* s.split(sep)
Split(s, sep) ==
    LET i == Find(s, sep)
    IN  IF i < 0 THEN <<s>>
        ELSE <<SliceTo(s, i)>> \o Split(SliceFrom(s, i + Len(sep)), sep)

IsSpace(c) == c \in {" ", "\n"}

RECURSIVE LStrip(_)
LStrip(s) == IF s # <<>> /\ IsSpace(Head(s)) THEN LStrip(Tail(s)) ELSE s

RECURSIVE RStrip(_)
RStrip(s) == IF s # <<>> /\ IsSpace(s[Len(s)]) THEN RStrip(SubSeq(s, 1, Len(s) - 1)) ELSE s

\* s.strip()
Strip(s) == RStrip(LStrip(s))

(***************************************************************************)
(* The packet file format: keywords and markers                            *)
(***************************************************************************)
START_ADDENDUM == <<"START_ADDENDUM", "\n">>
END_ADDENDUM == <<"END_ADDENDUM", "\n">>
FROM_KEYWORD == <<"F", "r", "o", "m">>
TO_KEYWORD == <<"T", "o">>
CRYPTED_KEYWORD == <<"Crypted">>
CRYPTED_WITH_KEYWORD == <<"Crypted", "With">>
PRIVATE_SIGNED_KEYWORD == <<"PrivateSigned">>
CLEAR_SIGNED_KEYWORD == <<"ClearSigned">>
DKIM_SIGNED_KEYWORD == <<"DkimSigned">>
VERIFICATION_KEYWORD == <<"Verification">>
ColonSpace == <<":", " ">>
CommaSpace == <<",", " ">>
Newline == <<"\n">>

\* '{}'.format(flag) of a Python bool
BoolText(b) == IF b THEN <<"True">> ELSE <<"False">>

\* the '{}: {}\n' lines packetize writes
AddendumLine(keyword, value) == keyword \o ColonSpace \o value \o Newline

RECURSIVE JoinNames(_)
\* packetize's loop building encrypted_names with ', ' between the names
JoinNames(names) ==
    IF names = <<>> THEN <<>>
    ELSE IF Len(names) = 1 THEN <<names[1]>>
    ELSE <<names[1]>> \o CommaSpace \o JoinNames(Tail(names))

\* the text of the original message, email_message.to_string(); the text of a
\* "marker" message ends with the characters of END_ADDENDUM
MessageText(p) ==
    <<"Subject", "\n", "body", "\n">>
    \o (IF p.text = "marker" THEN END_ADDENDUM ELSE <<>>)

\* everything packetize writes before the END_ADDENDUM marker
PacketBody(p) ==
    MessageText(p) \o START_ADDENDUM
    \o AddendumLine(FROM_KEYWORD, p.sender)
    \o AddendumLine(TO_KEYWORD, p.recipient)
    \o AddendumLine(CRYPTED_KEYWORD, BoolText(p.crypted))
    \o AddendumLine(CRYPTED_WITH_KEYWORD,
                    IF p.crypted THEN JoinNames(p.encrypted_with) ELSE <<>>)
    \o AddendumLine(PRIVATE_SIGNED_KEYWORD, BoolText(p.private_signed))
    \o AddendumLine(CLEAR_SIGNED_KEYWORD, BoolText(p.clear_signed))
    \o AddendumLine(DKIM_SIGNED_KEYWORD, BoolText(p.dkim_signed))
    \o AddendumLine(VERIFICATION_KEYWORD, p.verification_code)

\* the bytes of a packet file: finalized files end with END_ADDENDUM
FileContent(p, finalized) ==
    IF finalized THEN PacketBody(p) \o END_ADDENDUM ELSE PacketBody(p)

(***************************************************************************)
(* metadata.parse_bundled_message                                          *)
(*                                                                         *)
(* A Python value that may be None is a typed slot plus membership of its  *)
(* key in the set "none": the slot of a None holds a placeholder (<<>> or  *)
(* FALSE) that nothing reads.                                              *)
(***************************************************************************)
\* the text after "keyword: " up to the end of its line
ItemAfter(msg, keyword) ==
    LET item == SliceFrom(msg, Find(msg, keyword) + Len(keyword) + Len(ColonSpace))
    IN  SliceTo(item, Find(item, Newline))

\* i = msg.find(keyword); if i > 0
Found(msg, keyword) == Find(msg, keyword) > 0

\* set_addendum_item for a text item; has_msg is "msg is not None"
TextItem(has_msg, msg, keyword) ==
    IF has_msg /\ Found(msg, keyword) THEN ItemAfter(msg, keyword) ELSE <<>>

\* set_addendum_item with boolean_type=True
BoolItem(has_msg, msg, keyword) ==
    has_msg /\ Found(msg, keyword) /\ ItemAfter(msg, keyword) = <<"True">>

\* the inline find/split blocks for CryptedWith and Verification
ListItem(has_msg, msg, keyword) ==
    IF has_msg /\ Found(msg, keyword) THEN Split(ItemAfter(msg, keyword), CommaSpace)
    ELSE <<>>

\* has_content is "bundled_message_bytes is not None"
parse_bundled_message(has_content, content) ==
    LET i       == IF has_content THEN Find(content, START_ADDENDUM) ELSE -1
        has_msg == i > 0
        msg     == IF has_msg THEN SliceFrom(content, i) ELSE <<>>
    IN  [original_message |-> IF has_msg THEN SliceTo(content, i) ELSE <<>>,
         has_original |-> has_msg,
         addendum |->
           [From |-> TextItem(has_msg, msg, FROM_KEYWORD),
            To |-> TextItem(has_msg, msg, TO_KEYWORD),
            Crypted |-> BoolItem(has_msg, msg, CRYPTED_KEYWORD),
            CryptedWith |-> ListItem(has_msg, msg, CRYPTED_WITH_KEYWORD),
            PrivateSigned |-> BoolItem(has_msg, msg, PRIVATE_SIGNED_KEYWORD),
            ClearSigned |-> BoolItem(has_msg, msg, CLEAR_SIGNED_KEYWORD),
            DkimSigned |-> BoolItem(has_msg, msg, DKIM_SIGNED_KEYWORD),
            Verification |-> ListItem(has_msg, msg, VERIFICATION_KEYWORD),
            \* the keys whose value is None: the defaults that stay, and with
            \* msg None the three items set_addendum_item's except clause sets;
            \* with bundled_message_bytes None set_addendum_item is not reached
            none |-> (IF has_msg /\ Found(msg, FROM_KEYWORD) THEN {} ELSE {"From"})
                     \cup (IF has_msg /\ Found(msg, TO_KEYWORD) THEN {} ELSE {"To"})
                     \cup (IF has_content /\ ~has_msg THEN {"Crypted"} ELSE {})
                     \cup (IF has_msg /\ Found(msg, VERIFICATION_KEYWORD) THEN {}
                           ELSE {"Verification"})]]

(***************************************************************************)
(* Addresses, domains and the inputs of the producers                      *)
(***************************************************************************)
\* parse_domain: the part of an address after the "@"
parse_domain(email) == SliceFrom(email, Find(email, <<"@">>) + 1)

\* get_metadata_address: the well-known mailbox of a domain
get_metadata_address(domain) == <<"_domain_", "@">> \o domain

\* get_domain(): the local domain
LocalDomain == <<"w">>

PlainSender == <<"a", "@", "w">>

Senders == {PlainSender, <<"T", "o", "m", "@", "w">>}

Recipients == {<<"b", "@", "x">>, <<"c", "@", "y">>}

\* options.bundled_message_max_size(), in bytes
bundled_message_max_size == 300

\* sizes of packet files: two that fit together with a third, the limit
\* itself, and one above the limit
Sizes == {bundled_message_max_size \div 3, 2 * (bundled_message_max_size \div 3),
          bundled_message_max_size, bundled_message_max_size + 100}

\* the four addendum flags: crypted, private_signed, clear_signed, dkim_signed
AllFlags == [crypted : BOOLEAN, private_signed : BOOLEAN,
             clear_signed : BOOLEAN, dkim_signed : BOOLEAN]

NoFlags == [crypted |-> FALSE, private_signed |-> FALSE,
            clear_signed |-> FALSE, dkim_signed |-> FALSE]

CryptedOnly == [NoFlags EXCEPT !.crypted = TRUE]

\* what packetize is called with
NewPacket(sender, recipient, flags, size) ==
    [sender |-> sender, recipient |-> recipient,
     crypted |-> flags.crypted, private_signed |-> flags.private_signed,
     clear_signed |-> flags.clear_signed, dkim_signed |-> flags.dkim_signed,
     encrypted_with |-> <<"GPG">>, verification_code |-> <<"code">>,
     size |-> size, text |-> "plain",
     \* the name has MESSAGE_PREFIX and MESSAGE_SUFFIX: get_unique_filename
     prefix_suffix |-> TRUE]

(***************************************************************************)
(* Sizes of MIME parts                                                     *)
(***************************************************************************)
\* len(b64encode(n bytes))
B64Len(n) == 4 * ((n + 2) \div 3)

\* the header lines of a MIMEApplication part and the blank line after them
PartHeaderLen == 91

\* len(part.as_string()) of MIMEApplication(b64encode(n bytes), ..., encode_base64):
\* the payload is encoded twice, the second time in lines of 76 characters
PartLen(n) ==
    LET b == B64Len(B64Len(n))
    IN  PartHeaderLen + b + ((b + 75) \div 76)

RECURSIVE SumLen(_)
SumLen(ps) == IF ps = <<>> THEN 0 ELSE Head(ps).len + SumLen(Tail(ps))

\* mutant: a padding part is added whatever the size so far
PadLoop_PadsAnyway(ps, current_size, target_size) ==
    Append(ps, [kind |-> "padding", packet |-> 0,
                len |-> PartLen(Max(target_size - current_size, 0))])

RECURSIVE PadLoop(_, _, _)
\* the while loop of pad_message
PadLoop(ps, current_size, target_size) ==
    IF current_size < target_size
    THEN LET part == [kind |-> "padding", packet |-> 0,
                      len |-> PartLen(target_size - current_size)]
         IN  PadLoop(Append(ps, part), current_size + part.len, target_size)
    ELSE ps

\* mutant: no padding is added
pad_message_NoPadding(ps) == ps

pad_message(ps) == PadLoop(ps, SumLen(ps), bundled_message_max_size)

(***************************************************************************)
(* State                                                                   *)
(***************************************************************************)
VARIABLES
    packets,          \* packets[n]: what packetize was called with for file n
    queue,            \* the names of the files in the packet directories
    finalized,        \* the files that end with END_ADDENDUM
    dirs,             \* the domains that have a directory under the packet directory
    options,          \* encrypt_metadata, bundle_and_pad, bundle_frequency,
                      \* require_key_verified
    elapsed,          \* now - date_queue_last_active, in sleep periods, saturating
    pc,               \* where the scheduler loop of main() is
    dirnames,         \* directories bundle_and_pad has still to visit
    to_domain,        \* the domain being bundled
    parts,            \* parts of the inner message
    bundled_messages, \* self.bundled_messages
    crypted_with,     \* self.crypted_with
    history,          \* bag of outbound history records
    bounces,          \* bounces[n]: bounce notices sent for file n, saturating
    relayed,          \* bundles relayed successfully in this pass
    notices,          \* operator notices of this pass
    included,         \* files that were in a bundle relayed successfully
    deleted,          \* files removed by add_history_and_remove
    wrapped,          \* what create_protected_message did per domain in this pass
    listed,           \* finalized files of the listing create_inner_message took
    partial,          \* files of which only the message text is on disk
    outcome,          \* outcome[n]: how the packetize call of file n ended
    unsent,           \* files of bundles the relay refused, not selected since
    other_pass,       \* a pass of a second scheduler process
    contacts,         \* contacts[address][name]: the key record of a contact
    user_keys,        \* names for which the local metadata address has a passcode
    calls,            \* calls made into the queue, the contacts and the relay
    result            \* what the last call of a metadata.py function returned

vars == <<packets, queue, finalized, dirs, options, elapsed, pc, dirnames, to_domain,
          parts, bundled_messages, crypted_with,
          history, bounces, relayed, notices, included, deleted, wrapped, listed,
          partial, outcome, unsent, other_pass, contacts, user_keys, calls, result>>

producerVars == <<packets, queue, finalized, dirs, partial, outcome>>

passVars == <<dirnames, to_domain, parts,
              bundled_messages, crypted_with, listed>>

outVars == <<history, bounces, relayed, notices, included, deleted, wrapped, unsent>>

keyVars == <<contacts, user_keys, calls, result>>

Names == 1..Len(packets)

Domain(n) == parse_domain(packets[n].recipient)

NoDomain == <<>>

(***************************************************************************)
(* Contacts and keys of the metadata addresses                             *)
(***************************************************************************)
\* None, where an address is expected
NoAddress == <<>>

\* None, where a fingerprint or a passcode is expected
NoValue == "None"

\* the encryption programs a contact can have
EncryptionNames == {"GPG", "PGP"}

\* the users the functions of metadata.py are called with
LocalUser == PlainSender

PeerUser == <<"b", "@", "x">>

Users == {LocalUser, PeerUser}

\* get_metadata_address(email=email)
MetadataAddressOf(email) ==
    IF email = NoAddress THEN NoAddress
    ELSE get_metadata_address(parse_domain(email))

MetadataAddresses == {MetadataAddressOf(email) : email \in Users}

\* the contact has no record for an encryption program
NoKey == [known |-> FALSE, fingerprint |-> NoValue, verified |-> FALSE,
          active |-> FALSE]

\* the key records of a contact for one encryption program: none, one whose
\* fingerprint is not known yet, and one with a fingerprint
KeyRecords ==
    {NoKey,
     [known |-> TRUE, fingerprint |-> NoValue, verified |-> FALSE, active |-> TRUE]}
    \cup [known : {TRUE}, fingerprint : {"fingerprint"}, verified : BOOLEAN,
          active : BOOLEAN]

\* no contact has a key record
NoContacts == [address \in MetadataAddresses |-> [name \in EncryptionNames |-> NoKey]]

\* before the first call
NoResult == [fn |-> NoValue]

\* contacts.get_fingerprint(metadata_address, encryption_name), as unpacked by
\* get_metadata_user_details: fingerprint, verified, active
get_fingerprint(address, name) ==
    IF address = NoAddress \/ name = NoValue THEN NoKey
    ELSE IF ~contacts[address][name].known THEN NoKey
    ELSE contacts[address][name]

\* contacts.get_encryption_names(metadata_address)
get_encryption_names(address) ==
    IF address = NoAddress THEN {}
    ELSE {name \in EncryptionNames : contacts[address][name].known}

\* user_keys.get_passcode(metadata_address, encryption_name)
get_passcode(address, name) ==
    IF address = MetadataAddressOf(LocalUser) /\ name \in user_keys
    THEN "passcode" ELSE NoValue

\* sleep periods per bundle_frequency: hourly, daily, weekly
PERIOD == 1
Frequency(f) == CASE f = "hourly" -> 1 [] f = "daily" -> 24 [] f = "weekly" -> 168

RECURSIVE Sorted_Descending(_)
\* mutant: the directory is processed latest name first
Sorted_Descending(S) == IF S = {} THEN <<>>
                        ELSE LET m == CHOOSE x \in S : \A y \in S : x >= y
                             IN  <<m>> \o Sorted_Descending(S \ {m})

\* sorted(filenames) of a set of names
RECURSIVE Sorted(_)
Sorted(S) == IF S = {} THEN <<>>
             ELSE LET m == CHOOSE x \in S : \A y \in S : x <= y
                  IN  <<m>> \o Sorted(S \ {m})

Range(f) == {f[i] : i \in DOMAIN f}

\* the state when main() starts, with the options encrypt_metadata,
\* bundle_and_pad and bundle_frequency
InitOptions(encrypt_metadata, bundle_and_pad, f) ==
    /\ packets = <<>>
    /\ queue = {}
    /\ finalized = {}
    /\ dirs = {}
    /\ options = [encrypt_metadata |-> encrypt_metadata,
                  bundle_and_pad |-> bundle_and_pad,
                  bundle_frequency |-> f,
                  require_key_verified |-> FALSE]
    /\ elapsed = 0
    /\ pc = "wake"
    /\ dirnames = {}
    /\ to_domain = NoDomain
    /\ parts = <<>>
    /\ bundled_messages = <<>>
    /\ crypted_with = <<>>
    /\ history = EmptyBag
    /\ bounces = <<>>
    /\ relayed = {}
    /\ notices = {}
    /\ included = {}
    /\ deleted = {}
    /\ wrapped = {}
    /\ listed = {}
    /\ partial = {}
    /\ outcome = <<>>
    /\ unsent = [now |-> {}, before |-> {}]
    /\ other_pass = [running |-> FALSE, dirnames |-> {}, included |-> {}]
    /\ contacts = NoContacts
    /\ user_keys = {}
    /\ calls = {}
    /\ result = NoResult

\* the state when main() starts with both options on
InitFrequency(f) == InitOptions(TRUE, TRUE, f)

Init == InitFrequency("hourly")

(***************************************************************************)
(* Producers: metadata.packetize                                           *)
(***************************************************************************)
\* packetize up to the last write before the END_ADDENDUM marker
Packetize(sender, recipient, flags, size) ==
    /\ packets' = Append(packets, NewPacket(sender, recipient, flags, size))
    /\ bounces' = Append(bounces, 0)
    /\ queue' = queue \cup {Len(packets) + 1}
    /\ dirs' = dirs \cup {parse_domain(recipient)}
    /\ outcome' = Append(outcome, "running")
    /\ UNCHANGED <<finalized, partial, options, keyVars, other_pass, elapsed, pc, passVars,
                   history, relayed, notices, included, deleted, wrapped, unsent>>

\* the write of END_ADDENDUM and the close of the file
Finalize(n) ==
    /\ n \in queue \ finalized
    /\ n \notin partial
    /\ outcome[n] = "running"
    /\ finalized' = finalized \cup {n}
    /\ UNCHANGED <<packets, queue, dirs, partial, outcome, options, keyVars, other_pass,
                   elapsed, pc, passVars, outVars>>

\* packetize up to its first write reaching the disk: the file holds the text
\* of the message and nothing of the addendum
PacketizeStart(sender, recipient, flags, size, text) ==
    /\ packets' = Append(packets,
                         [NewPacket(sender, recipient, flags, size) EXCEPT !.text = text])
    /\ bounces' = Append(bounces, 0)
    /\ queue' = queue \cup {Len(packets) + 1}
    /\ dirs' = dirs \cup {parse_domain(recipient)}
    /\ outcome' = Append(outcome, "running")
    /\ partial' = partial \cup {Len(packets) + 1}
    /\ UNCHANGED <<finalized, options, keyVars, other_pass, elapsed, pc, passVars,
                   history, relayed, notices, included, deleted, wrapped, unsent>>

\* the writes from START_ADDENDUM to the Verification line reach the disk
WriteAddendum(n) ==
    /\ n \in partial
    /\ outcome[n] = "running"
    /\ partial' = partial \ {n}
    /\ UNCHANGED <<packets, queue, finalized, dirs, outcome, options, keyVars, other_pass,
                   elapsed, pc, passVars, outVars>>

\* packetize raises before it opens a file: parse_domain or os.mkdir raised
PacketizeRaisesEarly(sender, recipient, flags, size) ==
    /\ packets' = Append(packets, NewPacket(sender, recipient, flags, size))
    /\ bounces' = Append(bounces, 0)
    /\ outcome' = Append(outcome, "raised")
    /\ UNCHANGED <<queue, finalized, dirs, partial, options, keyVars, other_pass, elapsed, pc,
                   passVars, history, relayed, notices, included, deleted, wrapped,
                   unsent>>

\* the except clause of packetize after the file was opened: a write, the
\* close or log_message raised; the file stays as it is
PacketizeRaises(n) ==
    /\ n \in Names
    /\ outcome[n] = "running"
    /\ outcome' = [outcome EXCEPT ![n] = "raised"]
    /\ UNCHANGED <<packets, queue, finalized, dirs, partial, options, keyVars, other_pass,
                   elapsed, pc, passVars, outVars>>

\* packetize returns message_name
PacketizeReturns(n) ==
    /\ n \in finalized
    /\ outcome[n] = "running"
    /\ outcome' = [outcome EXCEPT ![n] = "returned"]
    /\ UNCHANGED <<packets, queue, finalized, dirs, partial, options, keyVars, other_pass,
                   elapsed, pc, passVars, outVars>>

(***************************************************************************)
(* The scheduler: main(), ready_to_run, bundle_and_pad_messages            *)
(***************************************************************************)
\* a fresh Bundle() and no pass in progress
IdlePass ==
    /\ dirnames' = {}
    /\ to_domain' = NoDomain
    /\ parts' = <<>>
    /\ bundled_messages' = <<>>
    /\ crypted_with' = <<>>
    /\ listed' = {}

\* mutant: the cadence is not looked at
ready_to_run_NoCadence ==
    /\ options.encrypt_metadata
    /\ options.bundle_and_pad

\* mutant: the two options are not looked at
ready_to_run_IgnoresOptions ==
    elapsed >= Frequency(options.bundle_frequency)

\* ready_to_run
ready_to_run ==
    /\ options.encrypt_metadata
    /\ options.bundle_and_pad
    /\ elapsed >= Frequency(options.bundle_frequency)

\* sleep(PERIOD)
Sleep ==
    /\ pc = "sleep"
    /\ pc' = "wake"
    /\ elapsed' = Min(elapsed + PERIOD, Frequency(options.bundle_frequency))
    /\ relayed' = {}
    /\ notices' = {}
    /\ wrapped' = {}
    /\ unsent' = [unsent EXCEPT !.before = {}]
    /\ UNCHANGED <<producerVars, options, keyVars, other_pass, passVars, history, bounces,
                   included, deleted>>

\* mutant: a tick that is not ready sets the timestamp
TickNotReady_SetsTimestamp ==
    /\ pc = "wake"
    /\ ~ready_to_run
    /\ pc' = "sleep"
    /\ elapsed' = 0
    /\ UNCHANGED <<producerVars, options, keyVars, other_pass, passVars, outVars>>

\* a tick that is not ready: nothing runs
TickNotReady ==
    /\ pc = "wake"
    /\ ~ready_to_run
    /\ pc' = "sleep"
    /\ UNCHANGED <<producerVars, options, keyVars, other_pass, elapsed, passVars, outVars>>

\* a ready tick: bundle_and_pad lists the packet directory
StartPass ==
    /\ pc = "wake"
    /\ ready_to_run
    /\ pc' = "domains"
    /\ dirnames' = dirs
    /\ unsent' = [now |-> {}, before |-> unsent.before \cup unsent.now]
    /\ UNCHANGED <<producerVars, options, keyVars, other_pass, elapsed, to_domain, parts,
                   bundled_messages, crypted_with, listed,
                   history, bounces, relayed, notices, included, deleted, wrapped>>

\* mutant: the timestamp is set in the except clause too
PassRaises_SetsTimestamp ==
    /\ notices' = notices \cup {[kind |-> "unable_to_send_bundled_messages",
                                 domain |-> <<>>]}
    /\ pc' = "sleep"
    /\ IdlePass
    /\ elapsed' = 0
    /\ UNCHANGED <<options, keyVars, other_pass>>

\* mutant: the exception is reported and ends the loop of main()
PassRaises_ExitsLoop ==
    /\ notices' = notices \cup {[kind |-> "unable_to_send_bundled_messages",
                                 domain |-> NoDomain]}
    /\ pc' = "exit"
    /\ IdlePass
    /\ UNCHANGED <<options, keyVars, other_pass, elapsed>>

\* the except clause of bundle_and_pad_messages: report, leave the timestamp
PassRaises ==
    /\ notices' = notices \cup {[kind |-> "unable_to_send_bundled_messages",
                                 domain |-> NoDomain]}
    /\ pc' = "sleep"
    /\ IdlePass
    /\ UNCHANGED <<options, keyVars, other_pass, elapsed>>

\* the except clause of main(): Bundle() or ready_to_run() raised; the
\* exception is reported and the loop goes on to sleep(PERIOD)
TickRaises ==
    /\ pc = "wake"
    /\ PassRaises
    /\ UNCHANGED <<producerVars, history, bounces, relayed, included, deleted,
                   wrapped, unsent>>

\* mutant: bundle_and_pad returned and the timestamp is left as it was
FinishPass_KeepsTimestamp ==
    /\ pc = "domains"
    /\ dirnames = {}
    /\ pc' = "sleep"
    /\ IdlePass
    /\ UNCHANGED <<producerVars, options, keyVars, other_pass, elapsed, outVars>>

\* mutant: the timestamp is set only when every bundle of the pass was
\* encrypted and relayed
FinishPass_OnlyIfAllSent ==
    /\ pc = "domains"
    /\ dirnames = {}
    /\ elapsed' = IF unsent.now = {} /\ \A w \in wrapped : w.outcome = "crypted"
                  THEN 0 ELSE elapsed
    /\ pc' = "sleep"
    /\ IdlePass
    /\ UNCHANGED <<producerVars, options, keyVars, other_pass, outVars>>

\* bundle_and_pad returned: set_date_queue_last_active(now)
FinishPass ==
    /\ pc = "domains"
    /\ dirnames = {}
    /\ elapsed' = 0
    /\ pc' = "sleep"
    /\ IdlePass
    /\ UNCHANGED <<producerVars, options, keyVars, other_pass, outVars>>

(***************************************************************************)
(* Selection, padding and wrapping: create_message                         *)
(***************************************************************************)
\* the bytes on disk of the file n
FileBytes(n) ==
    IF n \in partial THEN MessageText(packets[n])
    ELSE FileContent(packets[n], n \in finalized)

\* mutant: the name of the file is not looked at
get_mime_part_AnyName(sel, n, bounce) ==
    LET filesize == packets[n].size
    IN  IF filesize > bundled_message_max_size
        THEN CASE bounce = "sent" -> [sel EXCEPT !.bounced = @ \cup {n}]
               [] bounce = "failed" -> sel
               [] bounce = "raised" -> [sel EXCEPT !.raised = TRUE]
               [] OTHER -> sel
        ELSE IF filesize + sel.estimated_size < bundled_message_max_size
        THEN IF EndsWith(FileBytes(n), END_ADDENDUM)
             THEN [sel EXCEPT
                     !.parts = Append(@, [kind |-> "packet", packet |-> n,
                                          len |-> PartLen(filesize)]),
                     !.estimated_size = @ + filesize,
                     !.bundled_messages = Append(@, n)]
             ELSE sel
        ELSE sel

\* get_mime_part for the file n, given what the loop selected so far; bounce
\* is what bounce_message does for n: "sent", "failed" or "raised"
get_mime_part(sel, n, bounce) ==
    LET filesize == packets[n].size
    IN  IF ~packets[n].prefix_suffix THEN sel
        ELSE IF filesize > bundled_message_max_size
        THEN CASE bounce = "sent" -> [sel EXCEPT !.bounced = @ \cup {n}]
               [] bounce = "failed" -> sel
               [] bounce = "raised" -> [sel EXCEPT !.raised = TRUE]
        ELSE IF filesize + sel.estimated_size < bundled_message_max_size
        THEN IF EndsWith(FileBytes(n), END_ADDENDUM)
             THEN [sel EXCEPT
                     !.parts = Append(@, [kind |-> "packet", packet |-> n,
                                          len |-> PartLen(filesize)]),
                     !.estimated_size = @ + filesize,
                     !.bundled_messages = Append(@, n)]
             ELSE sel
        ELSE sel

RECURSIVE SelectLoop_Stops(_, _, _)
\* mutant: the loop ends at the first file that does not fit
SelectLoop_Stops(sel, fs, bounce) ==
    IF fs = <<>> \/ sel.raised THEN sel
    ELSE IF /\ packets[Head(fs)].size <= bundled_message_max_size
            /\ packets[Head(fs)].size + sel.estimated_size >= bundled_message_max_size
         THEN sel
         ELSE SelectLoop_Stops(get_mime_part(sel, Head(fs),
                                             IF Head(fs) \in DOMAIN bounce
                                             THEN bounce[Head(fs)] ELSE "none"),
                               Tail(fs), bounce)

RECURSIVE SelectLoop(_, _, _)
\* the loop of create_inner_message over sorted(filenames); an exception ends it
SelectLoop(sel, fs, bounce) ==
    IF fs = <<>> \/ sel.raised THEN sel
    ELSE SelectLoop(get_mime_part(sel, Head(fs),
                                  IF Head(fs) \in DOMAIN bounce THEN bounce[Head(fs)]
                                  ELSE "none"),
                    Tail(fs), bounce)

\* entries of the packet directory that are not the directory of a domain: a
\* directory whose name does not start with ".", and a file
OtherEntries == {<<"not hidden", "x">>, <<"not a directory", ".", "x">>}

\* os.path.isdir(path) and dirname.startswith('.')
IsHiddenDirectory(dirname) == Head(dirname) \notin {"not hidden", "not a directory"}

\* the loop of bundle_and_pad meets an entry that is not a hidden directory
SkipEntry(dirname) ==
    /\ pc = "domains"
    /\ dirname \in dirnames
    /\ ~IsHiddenDirectory(dirname)
    /\ dirnames' = dirnames \ {dirname}
    /\ UNCHANGED <<producerVars, options, keyVars, other_pass, elapsed, pc, to_domain,
                   parts, bundled_messages, crypted_with, listed, outVars>>

\* something other than packetize puts an entry into the packet directory
PutOtherEntry(dirname) ==
    /\ dirname \notin dirs
    /\ dirs' = dirs \cup {dirname}
    /\ UNCHANGED <<packets, queue, finalized, partial, outcome, options, keyVars,
                   other_pass, elapsed, pc, passVars, outVars>>

\* something other than packetize puts a file into the directory of a domain,
\* under a name without MESSAGE_PREFIX or MESSAGE_SUFFIX; its content is that of
\* a finished packet
PutOtherFile(recipient, size) ==
    /\ packets' = Append(packets,
                         [NewPacket(PlainSender, recipient, CryptedOnly, size)
                            EXCEPT !.prefix_suffix = FALSE])
    /\ bounces' = Append(bounces, 0)
    /\ queue' = queue \cup {Len(packets) + 1}
    /\ finalized' = finalized \cup {Len(packets) + 1}
    /\ dirs' = dirs \cup {parse_domain(recipient)}
    /\ outcome' = Append(outcome, "none")
    /\ UNCHANGED <<partial, options, keyVars, other_pass, elapsed, pc, passVars,
                   history, relayed, notices, included, deleted, wrapped, unsent>>

\* mutant: self.bundled_messages is not reset for the next directory
NothingSelected_KeepsList ==
    [parts |-> <<>>, estimated_size |-> 0, bundled_messages |-> bundled_messages,
     bounced |-> {}, raised |-> FALSE]

\* before the loop of create_inner_message: bundle_and_pad has reset
\* self.bundled_messages for the directory
NothingSelected ==
    [parts |-> <<>>, estimated_size |-> 0, bundled_messages |-> <<>>,
     bounced |-> {}, raised |-> FALSE]

\* mutant: the files of every directory
FilesOf_AnyDomain(d) == queue

\* the files of the directory of domain d
FilesOf(d) == {n \in queue : Domain(n) = d}

\* the files of d that get_mime_part bounces
OversizeOf(d) == {n \in FilesOf(d) : /\ packets[n].prefix_suffix
                                     /\ packets[n].size > bundled_message_max_size}

\* create_inner_message up to the padding, for the directory of d
create_inner_message(d, bounce) == SelectLoop(NothingSelected, Sorted(FilesOf(d)), bounce)

\* mutant: the message is used whether it is crypted or not
is_crypted_Unchecked(crypt) == crypt \in {"crypted", "not crypted"}

\* crypto_message.is_crypted() of what create_protected_message returned
is_crypted(crypt) == crypt = "crypted"

\* the loop of bundle_and_pad takes the next directory: create_message selects,
\* pads and encrypts; crypt is what create_protected_message does
CreateMessage(d, bounce, crypt) ==
    /\ pc = "domains"
    /\ d \in dirnames
    /\ IsHiddenDirectory(d)
    /\ LET sel == create_inner_message(d, bounce)
           padded == pad_message(sel.parts)
           inner == ~sel.raised /\ Len(padded) > 0
       IN  /\ bounces' = [n \in DOMAIN bounces |->
                            IF n \in sel.bounced THEN Min(bounces[n] + 1, MaxBounces)
                            ELSE bounces[n]]
           /\ wrapped' = IF inner THEN wrapped \cup {[domain |-> d, outcome |-> crypt]}
                         ELSE wrapped
           /\ unsent' = [now |-> unsent.now \ Range(sel.bundled_messages),
                         before |-> unsent.before \ Range(sel.bundled_messages)]
           /\ \/ /\ crypt = "raised"
                 /\ sel.raised \/ inner
                 /\ PassRaises
              \/ /\ ~sel.raised
                 /\ crypt # "raised"
                 /\ ~(inner /\ is_crypted(crypt))
                 /\ notices' = IF inner
                               THEN notices \cup {[kind |-> "bad_bundled_encrypted_message",
                                                   domain |-> d]}
                               ELSE notices
                 /\ dirnames' = dirnames \ {d}
                 /\ to_domain' = d
                 /\ bundled_messages' = sel.bundled_messages
                 /\ listed' = FilesOf(d) \cap finalized
                 /\ pc' = "domains"
                 /\ UNCHANGED <<parts, crypted_with, options, keyVars, other_pass, elapsed>>
              \/ /\ inner
                 /\ crypt # "raised"
                 /\ is_crypted(crypt)
                 /\ dirnames' = dirnames \ {d}
                 /\ to_domain' = d
                 /\ bundled_messages' = sel.bundled_messages
                 /\ listed' = FilesOf(d) \cap finalized
                 /\ parts' = padded
                 /\ crypted_with' = <<"GPG">>
                 /\ pc' = "send"
                 /\ UNCHANGED <<notices, options, keyVars, other_pass, elapsed>>
    /\ UNCHANGED <<producerVars, history, relayed, included, deleted>>

(***************************************************************************)
(* Relay: send_bundled_message                                             *)
(***************************************************************************)
\* send_message returned True
SendOk ==
    /\ pc = "send"
    /\ relayed' = relayed \cup
          {[sender |-> get_metadata_address(LocalDomain),
            recipient |-> get_metadata_address(to_domain),
            domain |-> to_domain, packets |-> bundled_messages, parts |-> parts]}
    /\ included' = included \cup Range(bundled_messages)
    /\ pc' = "record"
    /\ UNCHANGED <<producerVars, options, keyVars, other_pass, elapsed, passVars,
                   history, bounces, notices, deleted, wrapped, unsent>>

\* mutant: add_history_and_remove runs whatever send_bundled_message returned
SendFails_RecordAnyway ==
    /\ pc = "send"
    /\ pc' = "record"
    /\ UNCHANGED <<producerVars, options, keyVars, other_pass, elapsed, passVars, outVars>>

\* send_message returned False or raised: result_ok is False
SendFails ==
    /\ pc = "send"
    /\ parts' = <<>>
    /\ pc' = "domains"
    /\ unsent' = [unsent EXCEPT !.now = @ \cup Range(bundled_messages)]
    /\ UNCHANGED <<producerVars, options, keyVars, other_pass, elapsed, dirnames, to_domain,
                   bundled_messages, crypted_with, listed,
                   history, bounces, relayed, notices, included, deleted, wrapped>>

(***************************************************************************)
(* History: add_history_and_remove                                         *)
(***************************************************************************)
\* get_addendum_value of a text item
get_addendum_value(value) == Strip(value)

\* mutant: the sender is a private signer of every privately signed message
HistoryRecord_SenderAlways(n, a, metadata_crypted_with) ==
    LET sender == get_addendum_value(a.From)
        meta   == get_metadata_address(parse_domain(sender))
    IN  [packet |-> n,
         sender |-> sender,
         recipient |-> get_addendum_value(a.To),
         verification_code |-> a.Verification,
         crypted |-> a.Crypted,
         crypted_with |-> a.CryptedWith,
         metadata_crypted |-> TRUE,
         metadata_crypted_with |-> metadata_crypted_with,
         private_signed |-> a.PrivateSigned,
         private_signers |-> IF a.PrivateSigned THEN <<sender, meta>> ELSE <<>>,
         clear_signed |-> a.ClearSigned,
         clear_signers |-> IF a.ClearSigned
                           THEN (IF a.Crypted THEN <<sender>> ELSE <<meta>>)
                           ELSE <<>>,
         dkim_signed |-> a.DkimSigned,
         dkim_sig_verified |-> a.DkimSigned]

\* the record add_outbound_record gets for the file n with addendum a
HistoryRecord(n, a, metadata_crypted_with) ==
    LET sender == get_addendum_value(a.From)
        meta   == get_metadata_address(parse_domain(sender))
    IN  [packet |-> n,
         sender |-> sender,
         recipient |-> get_addendum_value(a.To),
         verification_code |-> a.Verification,
         crypted |-> a.Crypted,
         crypted_with |-> a.CryptedWith,
         metadata_crypted |-> TRUE,
         metadata_crypted_with |-> metadata_crypted_with,
         private_signed |-> a.PrivateSigned,
         private_signers |-> IF a.PrivateSigned
                             THEN (IF a.Crypted THEN <<sender>> ELSE <<>>) \o <<meta>>
                             ELSE <<>>,
         clear_signed |-> a.ClearSigned,
         clear_signers |-> IF a.ClearSigned
                           THEN (IF a.Crypted THEN <<sender>> ELSE <<meta>>)
                           ELSE <<>>,
         dkim_signed |-> a.DkimSigned,
         dkim_sig_verified |-> a.DkimSigned]

\* mutant: only encrypted messages get a record
WantsRecord_CryptedOnly(a) == a.Crypted

\* whether add_history_and_remove writes a record for the addendum a
WantsRecord(a) == a.Crypted \/ a.PrivateSigned \/ a.ClearSigned \/ a.DkimSigned

\* the record of the file n, if add_history_and_remove writes one
RecordsOf(n) ==
    LET a == parse_bundled_message(TRUE, FileBytes(n)).addendum
    IN  IF WantsRecord(a) THEN {HistoryRecord(n, a, crypted_with)} ELSE {}

\* add_history_and_remove: the loop over self.bundled_messages.  With raises_at
\* 0 it runs to its end; otherwise add_outbound_record raises for that message,
\* after the messages before it were recorded and removed
AddHistoryAndRemove(raises_at) ==
    /\ pc = "record"
    /\ raises_at \in 0..Len(bundled_messages)
    /\ LET done == IF raises_at = 0 THEN Range(bundled_messages)
                   ELSE {bundled_messages[i] : i \in 1..(raises_at - 1)}
       IN  /\ done \subseteq queue
           /\ history' = history (+) SetToBag(UNION {RecordsOf(n) : n \in done})
           /\ queue' = queue \ done
           /\ deleted' = deleted \cup done
           /\ \/ /\ raises_at = 0
                 /\ parts' = <<>>
                 /\ pc' = "domains"
                 /\ UNCHANGED <<dirnames, to_domain, bundled_messages, crypted_with,
                                listed, notices, options, keyVars, other_pass, elapsed>>
              \/ /\ raises_at > 0
                 /\ bundled_messages[raises_at] \in queue
                 /\ RecordsOf(bundled_messages[raises_at]) # {}
                 /\ PassRaises
    /\ UNCHANGED <<packets, finalized, dirs, partial, outcome, bounces, relayed,
                   included, wrapped, unsent>>

\* add_history_and_remove when a file of self.bundled_messages is gone: open()
\* raises for the first such file, after the files before it were recorded and
\* removed
AddHistoryFileMissing ==
    /\ pc = "record"
    /\ \E i \in DOMAIN bundled_messages : bundled_messages[i] \notin queue
    /\ LET first == CHOOSE i \in DOMAIN bundled_messages :
                       /\ bundled_messages[i] \notin queue
                       /\ \A j \in 1..(i - 1) : bundled_messages[j] \in queue
           done == {bundled_messages[i] : i \in 1..(first - 1)}
       IN  /\ history' = history (+) SetToBag(UNION {RecordsOf(n) : n \in done})
           /\ queue' = queue \ done
           /\ deleted' = deleted \cup done
           /\ PassRaises
    /\ UNCHANGED <<packets, finalized, dirs, partial, outcome, bounces, relayed,
                   included, wrapped, unsent>>

(***************************************************************************)
(* A second process running main(): nothing in main() keeps it from        *)
(* starting.  Its pass is taken one directory at a time, with a relay that *)
(* accepts every bundle.                                                   *)
(***************************************************************************)
\* the second process finds ready_to_run() true and lists the packet directory
OtherStart ==
    /\ ~other_pass.running
    /\ ready_to_run
    /\ other_pass' = [other_pass EXCEPT !.running = TRUE, !.dirnames = dirs]
    /\ UNCHANGED <<producerVars, options, keyVars, elapsed, pc, passVars, outVars>>

\* the second process bundles, relays, records and removes the files of d
OtherBundle(d) ==
    /\ other_pass.running
    /\ d \in other_pass.dirnames
    /\ LET sel  == create_inner_message(d, <<>>)
           done == Range(sel.bundled_messages)
           recs == UNION {LET a == parse_bundled_message(TRUE, FileBytes(n)).addendum
                          IN  IF WantsRecord(a)
                              THEN {HistoryRecord(n, a, <<"GPG">>)} ELSE {} : n \in done}
       IN  /\ history' = history (+) SetToBag(recs)
           /\ queue' = queue \ done
           /\ deleted' = deleted \cup done
           /\ other_pass' = [other_pass EXCEPT !.dirnames = @ \ {d},
                                               !.included = @ \cup done]
    /\ UNCHANGED <<packets, finalized, dirs, partial, outcome, options, keyVars, elapsed, pc,
                   passVars, bounces, relayed, notices, included, wrapped, unsent>>

\* the pass of the second process returns: set_date_queue_last_active(now)
OtherFinish ==
    /\ other_pass.running
    /\ other_pass.dirnames = {}
    /\ other_pass' = [other_pass EXCEPT !.running = FALSE]
    /\ elapsed' = 0
    /\ UNCHANGED <<producerVars, options, keyVars, pc, passVars, outVars>>

(***************************************************************************)
(* Specifications                                                          *)
(***************************************************************************)
BounceOutcomes == {"sent", "failed", "raised"}

Scheduler ==
    \/ Sleep
    \/ TickNotReady
    \/ StartPass
    \/ FinishPass
    \/ \E d \in dirnames, crypt \in {"crypted", "not crypted", "raised"} :
          \E bounce \in [OversizeOf(d) -> BounceOutcomes] : CreateMessage(d, bounce, crypt)
    \/ SendOk
    \/ SendFails
    \/ \E raises_at \in 0..Len(bundled_messages) : AddHistoryAndRemove(raises_at)

Next ==
    \/ /\ Len(packets) < MaxPackets
       /\ \E recipient \in Recipients, size \in Sizes :
             Packetize(PlainSender, recipient, CryptedOnly, size)
    \/ \E n \in queue : Finalize(n)
    \/ Scheduler

Spec == Init /\ [][Next]_vars

\* the sizes below the limit
FittingSizes == {size \in Sizes : size < bundled_message_max_size}

\* the sizes that do not exceed the limit
AllowedSizes == {size \in Sizes : size <= bundled_message_max_size}

SmallSize == bundled_message_max_size \div 3

OneRecipient == <<"b", "@", "x">>

\* one domain, crypted packets of either sender that each fit a bundle alone
NextOneDomain ==
    \/ /\ Len(packets) < MaxFifoPackets
       /\ \E sender \in Senders, size \in FittingSizes :
             Packetize(sender, OneRecipient, CryptedOnly, size)
    \/ \E n \in queue : Finalize(n)
    \/ Scheduler

SpecOneDomain == Init /\ [][NextOneDomain]_vars

\* one domain, small packets with every combination of flags
NextHist ==
    \/ /\ Len(packets) < MaxPackets
       /\ \E flags \in AllFlags :
             Packetize(PlainSender, OneRecipient, flags, SmallSize)
    \/ \E n \in queue : Finalize(n)
    \/ Scheduler

HistSpec == Init /\ [][NextHist]_vars

\* the texts a message can have: without or with END_ADDENDUM as its last characters
Texts == {"plain", "marker"}

\* packetize in the steps of its writes, for one domain
NextWrite ==
    \/ /\ Len(packets) < MaxWritePackets
       /\ \E text \in Texts :
             PacketizeStart(PlainSender, OneRecipient, CryptedOnly, SmallSize, text)
    \/ /\ Len(packets) < MaxWritePackets
       /\ PacketizeRaisesEarly(PlainSender, OneRecipient, CryptedOnly, SmallSize)
    \/ \E n \in partial : WriteAddendum(n)
    \/ \E n \in queue : Finalize(n)
    \/ \E n \in Names : PacketizeRaises(n)
    \/ \E n \in finalized : PacketizeReturns(n)
    \/ Scheduler

WriteSpec == Init /\ [][NextWrite]_vars

\* two processes running main() on one packet directory
NextTwoSchedulers ==
    \/ /\ Len(packets) < MaxPackets
       /\ Packetize(PlainSender, OneRecipient, CryptedOnly, SmallSize)
    \/ \E n \in queue : Finalize(n)
    \/ Scheduler
    \/ AddHistoryFileMissing
    \/ OtherStart
    \/ \E d \in other_pass.dirnames : OtherBundle(d)
    \/ OtherFinish

TwoSchedulersSpec == Init /\ [][NextTwoSchedulers]_vars

(***************************************************************************)
(* The resolvers of metadata.py                                            *)
(***************************************************************************)
\* the packet directory is empty and no pass has run
NothingQueued ==
    /\ packets = <<>>
    /\ queue = {}
    /\ finalized = {}
    /\ dirs = {}
    /\ elapsed = 0
    /\ dirnames = {}
    /\ to_domain = NoDomain
    /\ parts = <<>>
    /\ bundled_messages = <<>>
    /\ crypted_with = <<>>
    /\ history = EmptyBag
    /\ bounces = <<>>
    /\ relayed = {}
    /\ notices = {}
    /\ included = {}
    /\ deleted = {}
    /\ wrapped = {}
    /\ listed = {}
    /\ partial = {}
    /\ outcome = <<>>
    /\ unsent = [now |-> {}, before |-> {}]
    /\ other_pass = [running |-> FALSE, dirnames |-> {}, included |-> {}]

\* a call of sync_fingerprint_via_queue, sync_private_key_via_queue,
\* contacts.add, add_private_key or send_message
Call(fn, email, name) == [fn |-> fn, email |-> email, encryption_name |-> name]

\* mutant: a key that is not verified is taken although verification is required
get_metadata_user_details_IgnoresVerified(email, encryption_name) ==
    LET metadata_address == MetadataAddressOf(email)
        key == get_fingerprint(metadata_address, encryption_name)
        ok  == key.fingerprint # NoValue /\ key.active
    IN  [ok |-> ok,
         metadata_address |-> IF ok THEN metadata_address ELSE NoAddress,
         fingerprint |-> key.fingerprint,
         calls |-> IF key.fingerprint = NoValue
                   THEN {Call("sync_fingerprint_via_queue", email, encryption_name)}
                   ELSE {}]

\* mutant: the fingerprint is queued for a sync whenever the key is not usable
get_metadata_user_details_SyncsAlways(email, encryption_name) ==
    LET metadata_address == MetadataAddressOf(email)
        key == get_fingerprint(metadata_address, encryption_name)
        ok  == /\ key.fingerprint # NoValue
               /\ key.active
               /\ ~(options.require_key_verified /\ ~key.verified)
    IN  [ok |-> ok,
         metadata_address |-> IF ok THEN metadata_address ELSE NoAddress,
         fingerprint |-> key.fingerprint,
         calls |-> IF ~ok
                   THEN {Call("sync_fingerprint_via_queue", email, encryption_name)}
                   ELSE {}]

\* get_metadata_user_details: ok, metadata_address, fingerprint, and the calls
\* it made
get_metadata_user_details(email, encryption_name) ==
    LET metadata_address == MetadataAddressOf(email)
        key == get_fingerprint(metadata_address, encryption_name)
        ok  == IF key.fingerprint = NoValue THEN FALSE
               ELSE IF ~key.active THEN FALSE
               ELSE IF options.require_key_verified /\ ~key.verified THEN FALSE
               ELSE TRUE
    IN  [ok |-> ok,
         metadata_address |-> IF ok THEN metadata_address ELSE NoAddress,
         fingerprint |-> key.fingerprint,
         calls |-> IF key.fingerprint = NoValue
                   THEN {Call("sync_fingerprint_via_queue", email, encryption_name)}
                   ELSE {}]

\* mutant: the passcode is not looked at
get_from_metadata_user_details_NoPasscode(email, encryption_name) ==
    LET r == get_metadata_user_details(email, encryption_name)
    IN  [ok |-> r.ok,
         metadata_address |-> r.metadata_address,
         passcode |-> IF r.ok THEN get_passcode(r.metadata_address, encryption_name)
                      ELSE NoValue,
         calls |-> r.calls
                   \cup (IF ~r.ok /\ r.fingerprint = NoValue
                         THEN {Call("contacts.add", email, encryption_name)}
                         ELSE {})]

\* get_from_metadata_user_details: ok, metadata_address, passcode, and the
\* calls it made
get_from_metadata_user_details(email, encryption_name) ==
    LET r        == get_metadata_user_details(email, encryption_name)
        passcode == IF r.ok THEN get_passcode(r.metadata_address, encryption_name)
                    ELSE NoValue
        ok       == r.ok /\ passcode # NoValue
    IN  [ok |-> ok,
         metadata_address |-> IF ok THEN r.metadata_address ELSE NoAddress,
         passcode |-> IF ok THEN passcode ELSE NoValue,
         calls |-> r.calls
                   \cup (IF ~r.ok /\ r.fingerprint = NoValue
                         THEN {Call("contacts.add", email, encryption_name)}
                         ELSE {})]

\* a call of get_metadata_user_details
GetMetadataUserDetails(email, encryption_name) ==
    /\ pc = "call"
    /\ LET r == get_metadata_user_details(email, encryption_name)
       IN  /\ result' = [fn |-> "get_metadata_user_details", email |-> email,
                         encryption_name |-> encryption_name, ok |-> r.ok,
                         metadata_address |-> r.metadata_address,
                         value |-> r.fingerprint]
           /\ calls' = calls \cup r.calls
    /\ pc' = "returned"
    /\ UNCHANGED <<producerVars, options, other_pass, elapsed, passVars, outVars,
                   contacts, user_keys>>

\* a call of get_from_metadata_user_details
GetFromMetadataUserDetails(email, encryption_name) ==
    /\ pc = "call"
    /\ LET r == get_from_metadata_user_details(email, encryption_name)
       IN  /\ result' = [fn |-> "get_from_metadata_user_details", email |-> email,
                         encryption_name |-> encryption_name, ok |-> r.ok,
                         metadata_address |-> r.metadata_address,
                         value |-> r.passcode]
           /\ calls' = calls \cup r.calls
    /\ pc' = "returned"
    /\ UNCHANGED <<producerVars, options, other_pass, elapsed, passVars, outVars,
                   contacts, user_keys>>

\* a function of metadata.py is about to be called: the contacts have any key
\* records, the local metadata address any passcodes
KeysInit(encrypt_metadata) ==
    /\ contacts \in [MetadataAddresses -> [EncryptionNames -> KeyRecords]]
    /\ user_keys \in SUBSET EncryptionNames
    /\ \E require_key_verified \in BOOLEAN :
          options = [encrypt_metadata |-> encrypt_metadata, bundle_and_pad |-> TRUE,
                     bundle_frequency |-> "hourly",
                     require_key_verified |-> require_key_verified]
    /\ calls = {}
    /\ result = NoResult
    /\ pc = "call"
    /\ NothingQueued

\* the arguments of the resolvers: a user or None, a program or None
Emails == Users \cup {NoAddress}

Programs == EncryptionNames \cup {NoValue}

NextResolver ==
    \/ \E email \in Emails, name \in Programs : GetMetadataUserDetails(email, name)
    \/ \E email \in Emails, name \in Programs : GetFromMetadataUserDetails(email, name)

ResolverSpec == KeysInit(TRUE) /\ [][NextResolver]_vars

\* the orders in which contacts.get_encryption_names can list the programs
Orders == {<<"GPG", "PGP">>, <<"PGP", "GPG">>}

\* contacts.get_encryption_names(address) as a list, in the order given
NamesInOrder(address, order) ==
    SelectSeq(order, LAMBDA name : name \in get_encryption_names(address))

\* what the contacts and user_keys hold for from_user itself
UserRecords == {"no contacts_crypto", "no user key", "user key"}

RECURSIVE RecipientLoop(_, _)
\* is_ready_to_protect_metadata: the loop over the programs of the metadata
\* address of the recipient's domain; ready is len(encryption_names) > 0 before
\* the loop and the result of the last lookup after it
RecipientLoop(names, to_user) ==
    IF names = <<>> THEN [ready |-> FALSE, calls |-> {}]
    ELSE LET r == get_metadata_user_details(to_user, Head(names))
         IN  IF r.ok THEN [ready |-> TRUE, calls |-> r.calls]
             ELSE LET rest == RecipientLoop(Tail(names), to_user)
                  IN  [ready |-> rest.ready, calls |-> r.calls \cup rest.calls]

\* is_ready_to_protect_metadata: what is done for a program of the sender's
\* side that is not ready; the third value get_from_metadata_user_details
\* returned is None then
QueueSenderKey(from_user, name, user_record) ==
    CASE user_record = "no contacts_crypto" -> {Call("contacts.add", from_user, name)}
      [] user_record = "no user key" ->
            {Call("sync_private_key_via_queue", from_user, name)}
      [] user_record = "user key" ->
            {Call("sync_fingerprint_via_queue", from_user, name)}

RECURSIVE SenderLoop(_, _, _)
\* is_ready_to_protect_metadata: the loop over the programs of the metadata
\* address of the sender's domain
SenderLoop(names, from_user, user_record) ==
    IF names = <<>> THEN [ready |-> FALSE, calls |-> {}]
    ELSE LET r == get_from_metadata_user_details(from_user, Head(names))
         IN  IF r.ok THEN [ready |-> TRUE, calls |-> r.calls]
             ELSE LET rest == SenderLoop(Tail(names), from_user, user_record)
                  IN  [ready |-> rest.ready,
                       calls |-> r.calls
                                 \cup (IF r.passcode = NoValue
                                       THEN QueueSenderKey(from_user, Head(names),
                                                           user_record)
                                       ELSE {})
                                 \cup rest.calls]

\* mutant: only the recipient's side is looked at
is_ready_to_protect_metadata_RecipientOnly(from_user, to_user, order, user_record) ==
    IF from_user = NoAddress \/ to_user = NoAddress \/ ~options.encrypt_metadata
    THEN [ready |-> FALSE, calls |-> {}]
    ELSE RecipientLoop(NamesInOrder(MetadataAddressOf(to_user), order), to_user)

\* is_ready_to_protect_metadata
is_ready_to_protect_metadata(from_user, to_user, order, user_record) ==
    IF from_user = NoAddress \/ to_user = NoAddress THEN [ready |-> FALSE, calls |-> {}]
    ELSE IF ~options.encrypt_metadata THEN [ready |-> FALSE, calls |-> {}]
    ELSE LET to   == RecipientLoop(NamesInOrder(MetadataAddressOf(to_user), order),
                                   to_user)
             from == SenderLoop(NamesInOrder(MetadataAddressOf(from_user), order),
                                from_user, user_record)
         IN  IF ~to.ready THEN to
             ELSE [ready |-> from.ready, calls |-> to.calls \cup from.calls]

\* a call of is_ready_to_protect_metadata
IsReadyToProtectMetadata(from_user, to_user, order, user_record) ==
    /\ pc = "call"
    /\ LET r == is_ready_to_protect_metadata(from_user, to_user, order, user_record)
       IN  /\ result' = [fn |-> "is_ready_to_protect_metadata", email |-> from_user,
                         to_user |-> to_user, ok |-> r.ready]
           /\ calls' = calls \cup r.calls
    /\ pc' = "returned"
    /\ UNCHANGED <<producerVars, options, other_pass, elapsed, passVars, outVars,
                   contacts, user_keys>>

NextReady ==
    \E from_user \in Emails, to_user \in Emails, order \in Orders,
       user_record \in UserRecords :
          IsReadyToProtectMetadata(from_user, to_user, order, user_record)

ReadySpec == (\E encrypt_metadata \in BOOLEAN : KeysInit(encrypt_metadata))
             /\ [][NextReady]_vars

\* the lines of an addendum
Keywords == {"From", "To", "Crypted", "CryptedWith", "PrivateSigned", "ClearSigned",
             "DkimSigned", "Verification"}

\* a packet with every flag set
FullPacket ==
    NewPacket(PlainSender, OneRecipient,
              [crypted |-> TRUE, private_signed |-> TRUE, clear_signed |-> TRUE,
               dkim_signed |-> TRUE], SmallSize)

\* the bytes of a file of FullPacket, with or without START_ADDENDUM, holding
\* only the lines of the keywords kept
BytesWith(start, kept) ==
    LET p == FullPacket
        Line(k, keyword, value) == IF k \in kept THEN AddendumLine(keyword, value)
                                   ELSE <<>>
    IN  MessageText(p)
        \o (IF start THEN START_ADDENDUM ELSE <<>>)
        \o Line("From", FROM_KEYWORD, p.sender)
        \o Line("To", TO_KEYWORD, p.recipient)
        \o Line("Crypted", CRYPTED_KEYWORD, BoolText(p.crypted))
        \o Line("CryptedWith", CRYPTED_WITH_KEYWORD, JoinNames(p.encrypted_with))
        \o Line("PrivateSigned", PRIVATE_SIGNED_KEYWORD, BoolText(p.private_signed))
        \o Line("ClearSigned", CLEAR_SIGNED_KEYWORD, BoolText(p.clear_signed))
        \o Line("DkimSigned", DKIM_SIGNED_KEYWORD, BoolText(p.dkim_signed))
        \o Line("Verification", VERIFICATION_KEYWORD, p.verification_code)
        \o END_ADDENDUM

\* what parse_bundled_message is called with: None, or bytes
ParseInputs ==
    {[fn |-> "bundled_message_bytes", has_content |-> FALSE, start |-> FALSE,
      kept |-> {}]}
    \cup [fn : {"bundled_message_bytes"}, has_content : {TRUE}, start : BOOLEAN,
          kept : SUBSET Keywords]

\* parse_bundled_message is about to be called
ParseInit ==
    /\ result \in ParseInputs
    /\ pc = "call"
    /\ contacts = NoContacts
    /\ user_keys = {}
    /\ calls = {}
    /\ options = [encrypt_metadata |-> TRUE, bundle_and_pad |-> TRUE,
                  bundle_frequency |-> "hourly", require_key_verified |-> FALSE]
    /\ NothingQueued

\* original_message, addendum = parse_bundled_message(bundled_message_bytes)
ParseBundledMessage ==
    /\ pc = "call"
    /\ result.fn = "bundled_message_bytes"
    /\ LET r == parse_bundled_message(result.has_content,
                                      IF result.has_content
                                      THEN BytesWith(result.start, result.kept)
                                      ELSE <<>>)
       IN  result' = [fn |-> "parse_bundled_message",
                      has_content |-> result.has_content, start |-> result.start,
                      kept |-> result.kept, has_original |-> r.has_original,
                      original_message |-> r.original_message,
                      addendum |-> r.addendum]
    /\ pc' = "returned"
    /\ UNCHANGED <<producerVars, options, other_pass, elapsed, passVars, outVars,
                   contacts, user_keys, calls>>

NextParse == ParseBundledMessage

ParseSpec == ParseInit /\ [][NextParse]_vars

\* prep_metadata_key_message; key_block is whether make_public_key_block gives
\* lines for the local metadata address; message is "message is not None"
prep_metadata_key_message(from_user, to_user, key_block) ==
    LET remote_metadata_address == MetadataAddressOf(from_user)
        local_metadata_address  == MetadataAddressOf(to_user)
        encryption_software     == get_encryption_names(local_metadata_address)
    IN  [message |-> key_block,
         local_metadata_address |-> local_metadata_address,
         remote_metadata_address |-> remote_metadata_address,
         calls |-> IF key_block THEN {}
                   ELSE {Call("add_private_key", local_metadata_address, name)
                           : name \in encryption_software}]

\* send_metadata_key; relay is what send_message does: "sent" (returns True),
\* "failed" (returns False) or "raised"
send_metadata_key(from_user, to_user, key_block, relay) ==
    IF from_user = NoAddress \/ to_user = NoAddress
    THEN [sent_message |-> FALSE, message |-> FALSE, calls |-> {}]
    ELSE LET m == prep_metadata_key_message(from_user, to_user, key_block)
         IN  [sent_message |-> relay # "raised",
              message |-> m.message,
              calls |-> m.calls
                        \cup {Call("send_message", m.remote_metadata_address, NoValue)}]

\* what send_message can do with the message it is given: None is not sent
RelayOutcomes(key_block) ==
    IF key_block THEN {"sent", "failed", "raised"} ELSE {"failed", "raised"}

\* a call of send_metadata_key
SendMetadataKey(from_user, to_user, key_block, relay) ==
    /\ pc = "call"
    /\ relay \in RelayOutcomes(key_block)
    /\ LET r == send_metadata_key(from_user, to_user, key_block, relay)
       IN  /\ result' = [fn |-> "send_metadata_key", email |-> from_user,
                         to_user |-> to_user, ok |-> r.sent_message,
                         message |-> r.message, relay |-> relay]
           /\ calls' = calls \cup r.calls
    /\ pc' = "returned"
    /\ UNCHANGED <<producerVars, options, other_pass, elapsed, passVars, outVars,
                   contacts, user_keys>>

\* the key records of a contact that has a usable key or none
UsableOrNone ==
    {NoKey, [known |-> TRUE, fingerprint |-> "fingerprint", verified |-> TRUE,
             active |-> TRUE]}

\* send_metadata_key is about to be called
KeyExchangeInit ==
    /\ contacts \in [MetadataAddresses -> [EncryptionNames -> UsableOrNone]]
    /\ user_keys = {}
    /\ options = [encrypt_metadata |-> TRUE, bundle_and_pad |-> TRUE,
                  bundle_frequency |-> "hourly", require_key_verified |-> FALSE]
    /\ calls = {}
    /\ result = NoResult
    /\ pc = "call"
    /\ NothingQueued

NextKeyExchange ==
    \E from_user \in Emails, to_user \in Emails, key_block \in BOOLEAN,
       relay \in {"sent", "failed", "raised"} :
          SendMetadataKey(from_user, to_user, key_block, relay)

KeyExchangeSpec == KeyExchangeInit /\ [][NextKeyExchange]_vars

\* the most parts handed to pad_message
MaxPadParts == 2

\* len(part.as_string()) of the parts handed to pad_message
PartLens == {1, 91, 150, 209, 299, 300, 301, 450}

\* the lists of parts handed to pad_message
PadInputs ==
    UNION {[1..k -> {[kind |-> "packet", packet |-> 0, len |-> l] : l \in PartLens}]
             : k \in 0..MaxPadParts}

\* pad_message is about to be called with a list of parts
PadInit ==
    /\ \E ps \in PadInputs : parts = ps
    /\ pc = "pad"
    /\ packets = <<>>
    /\ queue = {}
    /\ finalized = {}
    /\ dirs = {}
    /\ options = [encrypt_metadata |-> TRUE, bundle_and_pad |-> TRUE,
                  bundle_frequency |-> "hourly", require_key_verified |-> FALSE]
    /\ elapsed = Frequency("hourly")
    /\ dirnames = {}
    /\ to_domain = NoDomain
    /\ bundled_messages = <<>>
    /\ crypted_with = <<>>
    /\ history = EmptyBag
    /\ bounces = <<>>
    /\ relayed = {}
    /\ notices = {}
    /\ included = {}
    /\ deleted = {}
    /\ wrapped = {}
    /\ listed = {}
    /\ partial = {}
    /\ outcome = <<>>
    /\ unsent = [now |-> {}, before |-> {}]
    /\ other_pass = [running |-> FALSE, dirnames |-> {}, included |-> {}]
    /\ contacts = NoContacts
    /\ user_keys = {}
    /\ calls = {}
    /\ result = NoResult

\* parts = self.pad_message(parts, to_domain)
PadParts ==
    /\ pc = "pad"
    /\ parts' = pad_message(parts)
    /\ pc' = "padded"
    /\ UNCHANGED <<producerVars, options, keyVars, other_pass, elapsed, dirnames, to_domain,
                   bundled_messages, crypted_with, listed, outVars>>

NextPad == PadParts

PadSpec == PadInit /\ [][NextPad]_vars

\* the values of options.bundle_frequency()
Frequencies == {"hourly", "daily", "weekly"}

\* one small packet, any setting of the options, and ticks that raise
NextOptions ==
    \/ /\ Len(packets) < MaxCadencePackets
       /\ Packetize(PlainSender, OneRecipient, CryptedOnly, SmallSize)
    \/ \E n \in queue : Finalize(n)
    \/ Scheduler
    \/ TickRaises

OptionsSpec ==
    /\ \E encrypt_metadata, bundle_and_pad \in BOOLEAN, f \in Frequencies :
          InitOptions(encrypt_metadata, bundle_and_pad, f)
    /\ [][NextOptions]_vars

\* one domain, packets and other files, small and oversize, and other entries
\* in the packet directory
NextForeign ==
    \/ /\ Len(packets) < MaxPackets
       /\ \E size \in {SmallSize, bundled_message_max_size + 100} :
             \/ Packetize(PlainSender, OneRecipient, CryptedOnly, size)
             \/ PutOtherFile(OneRecipient, size)
    \/ \E n \in queue : Finalize(n)
    \/ \E dirname \in OtherEntries : PutOtherEntry(dirname)
    \/ \E dirname \in dirnames : SkipEntry(dirname)
    \/ Scheduler

ForeignSpec == Init /\ [][NextForeign]_vars

\* one small packet and a daily cadence
NextCadence ==
    \/ /\ Len(packets) < MaxCadencePackets
       /\ Packetize(PlainSender, OneRecipient, CryptedOnly, SmallSize)
    \/ \E n \in queue : Finalize(n)
    \/ Scheduler

CadenceSpec == InitFrequency("daily") /\ [][NextCadence]_vars

\* the scheduler when the peer's metadata key is usable and nothing raises
LiveScheduler ==
    \/ Sleep
    \/ TickNotReady
    \/ StartPass
    \/ FinishPass
    \/ \E d \in dirnames : CreateMessage(d, <<>>, "crypted")
    \/ SendOk
    \/ SendFails
    \/ AddHistoryAndRemove(0)

NextLive ==
    \/ /\ Len(packets) < MaxPackets
       /\ \E size \in AllowedSizes :
             Packetize(PlainSender, OneRecipient, CryptedOnly, size)
    \/ \E n \in queue : Finalize(n)
    \/ LiveScheduler

\* main() loops for ever and every call of a pass returns; the relay succeeds
\* again and again
LiveSpec ==
    /\ Init
    /\ [][NextLive]_vars
    /\ WF_vars(Sleep)
    /\ WF_vars(TickNotReady)
    /\ WF_vars(StartPass)
    /\ WF_vars(FinishPass)
    /\ SF_vars(SendOk)
    \* create_message and add_history_and_remove return: their steps are always
    \* enabled where the loop waits for them, so weak fairness of each is
    \* that the loop does not wait there for ever
    /\ []<>~(pc = "domains" /\ dirnames # {})
    /\ []<>(pc # "record")

(***************************************************************************)
(* Properties                                                              *)
(***************************************************************************)
\* a step in which the except clause of bundle_and_pad_messages ran
PassRaised == pc \in {"domains", "send", "record"} /\ pc' = "sleep"
              /\ ~(pc = "domains" /\ dirnames = {})

UnableNotice == [kind |-> "unable_to_send_bundled_messages", domain |-> NoDomain]

BadNotice(d) == [kind |-> "bad_bundled_encrypted_message", domain |-> d]

\* the history records written for the file n
RecordsFor(h, n) == {r \in BagToSet(h) : r.packet = n}

\* C2: a file leaves the queue only in a step that follows the successful relay,
\* in the same pass, of a bundle of the file's domain that holds the file
C2_DeleteOnlyAfterRelay ==
    [][\A n \in queue \ queue' :
          \E b \in relayed : n \in Range(b.packets) /\ b.domain = Domain(n)]_vars

C2_Witness == \E n \in deleted : \E b \in relayed : n \in Range(b.packets)

\* C3: once the wrapper did not produce a crypted message for a domain, no
\* bundle of this pass is relayed to that domain, and no step of the pass
\* removes a file of that domain or writes a history record for one
C3_NoPartialPlaintext ==
    [][\A w \in wrapped' : w.outcome # "crypted" =>
          /\ \A b \in relayed' : b.domain # w.domain
          /\ \A n \in queue : Domain(n) = w.domain => n \in queue'
          /\ \A r \in BagToSet(history') :
                Domain(r.packet) = w.domain =>
                   /\ r \in BagToSet(history)
                   /\ CopiesIn(r, history') = CopiesIn(r, history)]_vars

C3_Witness ==
    \E w \in wrapped :
       /\ w.outcome = "not crypted"
       /\ w.domain = to_domain
       /\ bundled_messages # <<>>
       /\ Range(bundled_messages) \subseteq queue
       /\ BadNotice(w.domain) \in notices
       /\ pc = "domains"

\* C10: date_queue_last_active is written only by the step that ends a pass in
\* which every listed directory was visited; a pass that raises leaves the
\* timestamp as it was and puts the exception notice on the notice channel
C10_TimestampOnlyAfterFullPass ==
    [][/\ elapsed' < elapsed =>
             pc = "domains" /\ dirnames = {} /\ pc' = "sleep" /\ UnableNotice \notin notices'
       /\ PassRaised => elapsed' = elapsed /\ UnableNotice \in notices']_vars

C10_Witness ==
    /\ pc = "sleep"
    /\ UnableNotice \in notices
    /\ elapsed >= Frequency(options.bundle_frequency)
    /\ relayed # {}

\* the files that get_mime_part treats as too large
Oversize == {n \in Names : packets[n].size > bundled_message_max_size}

\* C6: a finalized oversize packet is bounced at most once however many passes run, is
\* never in a relayed bundle and never gets a history record
C6_BouncedOnce ==
    \A n \in Oversize \cap finalized :
       /\ bounces[n] <= 1
       /\ n \notin included
       /\ RecordsFor(history, n) = {}

\* C7: when a pass starts, no finalized oversize file is in the queue whose
\* bounce notice was sent
C7_RemovedAfterBounce ==
    pc = "wake" => \A n \in Oversize \cap finalized : bounces[n] > 0 => n \notin queue

\* C8: what is handed to the wrapper and what is relayed holds at least one
\* packet: no bundle consists of padding only
C8_NoPaddingOnlyBundle ==
    /\ pc = "send" => \E i \in DOMAIN parts : parts[i].kind = "packet"
    /\ \A b \in relayed : \E i \in DOMAIN b.parts : b.parts[i].kind = "packet"

\* a pass ended without the except clause of bundle_and_pad_messages
PassEndedWell == pc = "sleep" /\ UnableNotice \notin notices

\* the flags packetize was called with for the file n
Flagged(n) ==
    \/ packets[n].crypted
    \/ packets[n].private_signed
    \/ packets[n].clear_signed
    \/ packets[n].dkim_signed

\* the flags parse_bundled_message reads from the finished file n
ReadsAFlag(n) ==
    LET a == parse_bundled_message(TRUE, FileContent(packets[n], TRUE)).addendum
    IN  a.Crypted \/ a.PrivateSigned \/ a.ClearSigned \/ a.DkimSigned

C4_HistoryFaithful ==
    PassEndedWell =>
       \A b \in relayed : \A n \in Range(b.packets) :
          Flagged(n) =>
             /\ n \notin queue
             /\ Cardinality(RecordsFor(history, n)) = 1
             /\ \A r \in RecordsFor(history, n) :
                   /\ CopiesIn(r, history) = 1
                   /\ r.sender = packets[n].sender
                   /\ r.recipient = packets[n].recipient
                   /\ r.verification_code = <<packets[n].verification_code>>

C1_AtLeastOnce ==
    \A n \in 1..MaxPackets :
       (n \in queue \cap finalized /\ packets[n].size <= bundled_message_max_size)
          ~> (n \in included)

\* C11: a pass starts only when the time since date_queue_last_active was
\* written is at least the interval of bundle_frequency, and that time grows
\* only by the sleep of main(), one PERIOD at a time
C11_Cadence ==
    [][/\ (pc = "wake" /\ pc' = "domains") =>
             elapsed >= Frequency(options.bundle_frequency)
       /\ elapsed' > elapsed => pc = "sleep" /\ elapsed' = elapsed + PERIOD]_vars

\* a pass starts a full daily interval after the pass that relayed and removed
\* a packet
C11_Witness ==
    /\ pc = "domains"
    /\ dirnames = dirs
    /\ relayed = {}
    /\ deleted # {}
    /\ options.bundle_frequency = "daily"
    /\ elapsed = Frequency("daily")

\* C12: a pass ends only when every directory it listed was attempted: the
\* step that ends it leaves no directory unvisited but the one it was at
C12_OtherDomainsAttempted ==
    [][(pc \in {"domains", "send", "record"} /\ pc' = "sleep") =>
          IF pc = "domains" THEN Cardinality(dirnames) <= 1 ELSE dirnames = {}]_vars

\* C14: the parts of every bundle handed to the relay, packets and padding,
\* add up to at least bundled_message_max_size
C14_SizeLowerBound ==
    /\ pc = "send" => SumLen(parts) >= bundled_message_max_size
    /\ \A b \in relayed : SumLen(b.parts) >= bundled_message_max_size

\* a relayed bundle that holds a packet and padding
C14_Witness ==
    \E b \in relayed :
       /\ \E i \in DOMAIN b.parts : b.parts[i].kind = "packet"
       /\ \E i \in DOMAIN b.parts : b.parts[i].kind = "padding"

\* the serialized size of a part without payload
envelope_overhead_bound == PartLen(0)

\* C15: the parts of every bundle that carries a packet add up to at most
\* bundled_message_max_size plus the envelope of one part
C15_SizeUpperBound ==
    /\ (pc = "send" /\ bundled_messages # <<>>) =>
          SumLen(parts) <= bundled_message_max_size + envelope_overhead_bound
    /\ \A b \in relayed :
          b.packets # <<>> =>
             SumLen(b.parts) <= bundled_message_max_size + envelope_overhead_bound

\* C16: every relayed bundle goes from the metadata address of the local
\* domain to the metadata address of the domain of the directory it was built
\* from, and every packet in it has a recipient of that domain
C16_NoLeakAddressing ==
    \A b \in relayed :
       /\ b.sender = get_metadata_address(LocalDomain)
       /\ b.recipient = get_metadata_address(b.domain)
       /\ \A n \in Range(b.packets) :
             get_metadata_address(parse_domain(packets[n].recipient)) = b.recipient

\* bundles with packets were relayed to two domains in one pass
C16_Witness ==
    \E b1, b2 \in relayed :
       /\ b1.domain # b2.domain
       /\ b1.packets # <<>>
       /\ b2.packets # <<>>

\* a file without END_ADDENDUM is in no selection, no record and is not removed
UnfinishedStay ==
    /\ Range(bundled_messages) \subseteq finalized
    /\ included \cup deleted \subseteq finalized
    /\ \A h \in BagToSet(history) : h.packet \in finalized

\* C13: a file that does not end with END_ADDENDUM is never included, recorded
\* or removed, and a file that was in the queue unfinished is in a relayed
\* bundle some time after it is finalized
C13_UnfinishedThenIncluded ==
    /\ []UnfinishedStay
    /\ \A n \in 1..MaxPackets :
          []((n \in queue \ finalized /\ packets[n].size <= bundled_message_max_size)
                => [](n \in finalized => <>(n \in included)))

\* C17: the files of a bundle the relay refused stay in the queue, unchanged
\* and without a history record, and when the next pass has ended they were
\* selected again
C17_RetryNextCycle ==
    /\ \A n \in unsent.now \cup unsent.before :
          n \in queue \cap finalized /\ RecordsFor(history, n) = {}
    /\ pc = "sleep" => unsent.before = {}

\* C18: every file the bundler selected, relayed or removed was completely
\* written: the message, the addendum and the END_ADDENDUM marker
C18_OnlyCompleteFiles ==
    \A n \in Range(bundled_messages) \cup included \cup deleted :
       n \in finalized /\ n \notin partial

\* C20: after a packetize call that raised there is no finalized packet of that
\* call in the queue, and after one that returned a path its packet was
\* finalized in the directory of the recipient's domain
C20_PacketizeAllOrNothing ==
    \A n \in Names :
       /\ outcome[n] = "raised" => n \notin queue \cap finalized
       /\ outcome[n] = "returned" =>
             /\ n \in finalized
             /\ n \in queue \cup deleted
             /\ Domain(n) = parse_domain(packets[n].recipient)

\* C19: no file is in a bundle relayed by one scheduler process and in a
\* bundle relayed by another, and no history record is written twice
C19_NoDoubleRelay ==
    /\ included \cap other_pass.included = {}
    /\ \A r \in BagToSet(history) : CopiesIn(r, history) = 1

RECURSIVE JoinItems(_)
\* ', '.join(items) of a list of texts
JoinItems(items) ==
    IF items = <<>> THEN <<>>
    ELSE IF Len(items) = 1 THEN items[1]
    ELSE items[1] \o CommaSpace \o JoinItems(Tail(items))

\* the bytes the writes of packetize give for a parsed message and addendum
Reserialized(r) ==
    r.original_message \o START_ADDENDUM
    \o AddendumLine(FROM_KEYWORD, r.addendum.From)
    \o AddendumLine(TO_KEYWORD, r.addendum.To)
    \o AddendumLine(CRYPTED_KEYWORD, BoolText(r.addendum.Crypted))
    \o AddendumLine(CRYPTED_WITH_KEYWORD,
                    IF r.addendum.Crypted THEN JoinItems(r.addendum.CryptedWith)
                    ELSE <<>>)
    \o AddendumLine(PRIVATE_SIGNED_KEYWORD, BoolText(r.addendum.PrivateSigned))
    \o AddendumLine(CLEAR_SIGNED_KEYWORD, BoolText(r.addendum.ClearSigned))
    \o AddendumLine(DKIM_SIGNED_KEYWORD, BoolText(r.addendum.DkimSigned))
    \o AddendumLine(VERIFICATION_KEYWORD, JoinItems(r.addendum.Verification))
    \o END_ADDENDUM

\* C21: parsing the file packetize wrote for a packet gives the message text,
\* the sender and the recipient that were written, and writing the parsed
\* values again gives the same bytes
C21_RoundTrip ==
    \A n \in Names :
       LET bytes == FileContent(packets[n], TRUE)
           r     == parse_bundled_message(TRUE, bytes)
       IN  /\ r.original_message = MessageText(packets[n])
           /\ r.addendum.From = packets[n].sender
           /\ r.addendum.To = packets[n].recipient
           /\ Reserialized(r) = bytes

RECURSIVE SizeBefore(_, _)
\* estimated_size when the loop of create_inner_message met the file n: the
\* sizes of the selected files named before n
SizeBefore(selected, n) ==
    IF selected = <<>> \/ Head(selected) >= n THEN 0
    ELSE packets[Head(selected)].size + SizeBefore(Tail(selected), n)

\* the finalized file n of the listing did not fit when the loop met it
WouldOverflow(n) ==
    /\ packets[n].size <= bundled_message_max_size
    /\ SizeBefore(bundled_messages, n) + packets[n].size >= bundled_message_max_size

C24_MissingFileNotFatal ==
    [][(/\ pc = "record"
        /\ pc' # "record"
        /\ \E i \in DOMAIN bundled_messages : bundled_messages[i] \notin queue)
          => (pc' = "domains" /\ Range(bundled_messages) \cap queue' = {})]_vars

\* C25: no bounce notice is sent for a file that does not end with
\* END_ADDENDUM, whatever its size
C25_UnfinishedNeverBounced ==
    \A n \in Names \ finalized : bounces[n] = 0

\* C26: a tick that does not raise starts bundle_and_pad exactly when
\* encrypt_metadata is on, bundle_and_pad is on and the interval of the
\* configured bundle_frequency has passed since date_queue_last_active; in
\* every other tick bundle_and_pad is not started
C26_ReadyExactlyWhenDue ==
    [][(pc = "wake" /\ pc' # pc /\ UnableNotice \notin notices')
         => ((pc' = "domains")
               <=> (/\ options.encrypt_metadata
                    /\ options.bundle_and_pad
                    /\ elapsed >= Frequency(options.bundle_frequency)))]_vars

\* a weekly pass starts when a week has passed, with both options on
C26_Witness ==
    /\ pc = "domains"
    /\ options.bundle_frequency = "weekly"
    /\ options.encrypt_metadata
    /\ options.bundle_and_pad
    /\ elapsed = Frequency("weekly")
    /\ dirnames = dirs
    /\ relayed = {}

\* C27: a step in which the exception of ready_to_run or of the bundle pass
\* is reported leaves the loop at sleep(PERIOD); the sleep can always end, and
\* after it the next tick can always run
C27_LoopSurvives ==
    /\ [][(UnableNotice \notin notices /\ UnableNotice \in notices')
            => pc' = "sleep"]_vars
    /\ [](pc = "sleep" => ENABLED Sleep)
    /\ [](pc = "wake" => ENABLED (TickNotReady \/ StartPass))

\* a pass over a finished packet raised: the exception is reported, the
\* packet is still queued, and the loop is at sleep(PERIOD)
C27_Witness ==
    /\ pc = "sleep"
    /\ UnableNotice \in notices
    /\ queue \cap finalized # {}
    /\ elapsed >= Frequency(options.bundle_frequency)
    /\ ENABLED Sleep

\* C28: a tick in which ready_to_run is false goes to sleep and changes neither
\* date_queue_last_active nor a queue directory nor a packet file, relays
\* nothing and records no history
C28_NotReadyIsNoOp ==
    [][(pc = "wake" /\ ~ready_to_run /\ pc' # pc)
         => (/\ pc' = "sleep"
             /\ UNCHANGED <<elapsed, dirs, queue, packets, finalized, partial>>
             /\ UNCHANGED <<relayed, history, included, deleted, bounces>>)]_vars

\* a tick that was not ready, part of the interval gone, a finished packet
\* waiting in the queue
C28_Witness ==
    /\ pc = "sleep"
    /\ ~ready_to_run
    /\ options.encrypt_metadata
    /\ options.bundle_and_pad
    /\ elapsed > 0
    /\ queue \cap finalized # {}
    /\ notices = {}
    /\ relayed = {}
    /\ history = EmptyBag

\* C29: a pass started while the packet directory is empty lists no domain,
\* relays nothing and records nothing, and ends by setting
\* date_queue_last_active to now
C29_EmptyQueueCycle ==
    /\ [][(pc = "wake" /\ pc' = "domains" /\ dirs = {})
            => (dirnames' = {} /\ UNCHANGED <<relayed, history, elapsed>>)]_vars
    /\ [][(pc = "domains" /\ dirs = {} /\ pc' # pc)
            => (pc' = "sleep" /\ elapsed' = 0 /\ UNCHANGED <<relayed, history>>)]_vars
    /\ []((pc = "domains" /\ dirs = {}) => (relayed = {} /\ history = EmptyBag))

\* a daily pass that is ready and running over the empty packet directory
C29_Witness ==
    /\ pc = "domains"
    /\ dirs = {}
    /\ dirnames = {}
    /\ options.bundle_frequency = "daily"
    /\ elapsed = Frequency("daily")
    /\ ENABLED FinishPass

\* C30: pad_message returns for every list of parts; what it appends are
\* padding parts of positive length, each appended while the size so far was
\* below bundled_message_max_size; the result is at least that size; and
\* parts that already reach it get no padding
C30_PadderTerminates ==
    /\ [](pc = "pad" => ENABLED PadParts)
    /\ [][(pc = "pad" /\ pc' = "padded")
            => (/\ Len(parts') >= Len(parts)
                /\ SubSeq(parts', 1, Len(parts)) = parts
                /\ \A i \in (Len(parts) + 1)..Len(parts') :
                      /\ parts'[i].kind = "padding"
                      /\ parts'[i].len > 0
                      /\ SumLen(SubSeq(parts', 1, i - 1)) < bundled_message_max_size
                      /\ SumLen(SubSeq(parts', 1, i)) > SumLen(SubSeq(parts', 1, i - 1))
                /\ SumLen(parts') >= bundled_message_max_size
                /\ (SumLen(parts) >= bundled_message_max_size => parts' = parts))]_vars

\* two parts below bundled_message_max_size were padded with one part made
\* of the bytes that were missing
C30_Witness ==
    /\ pc = "padded"
    /\ Len(parts) = 3
    /\ parts[1].kind = "packet"
    /\ parts[2].kind = "packet"
    /\ parts[1].len + parts[2].len < bundled_message_max_size
    /\ parts[3].kind = "padding"
    /\ parts[3].len = PartLen(bundled_message_max_size - parts[1].len - parts[2].len)

\* the key record the contacts hold for the metadata address of the domain of
\* an email, for one encryption program
KeyOf(email, name) ==
    IF email \in Users /\ name \in EncryptionNames
    THEN contacts[MetadataAddressOf(email)][name]
    ELSE NoKey

PrivateKeyJobs == {c \in calls : c.fn \in {"sync_private_key_via_queue", "add_private_key"}}

\* the metadata address of the email has a usable key and no passcode
PasscodeMissing(email, name) ==
    /\ get_metadata_user_details(email, name).ok
    /\ get_passcode(MetadataAddressOf(email), name) = NoValue

\* C33 as stated: get_from_metadata_user_details returns ok only if the lookup
\* of get_metadata_user_details is ok and the metadata address has a passcode;
\* when the passcode is missing it queues the creation of a private key and
\* returns not ok, with metadata address and passcode None
C33_LocalResolverQueuesKey ==
    result.fn = "get_from_metadata_user_details" =>
       /\ result.ok =>
             /\ get_metadata_user_details(result.email, result.encryption_name).ok
             /\ get_passcode(MetadataAddressOf(result.email),
                             result.encryption_name) # NoValue
       /\ PasscodeMissing(result.email, result.encryption_name) =>
             /\ PrivateKeyJobs # {}
             /\ ~result.ok
             /\ result.metadata_address = NoAddress
             /\ result.value = NoValue

\* C33, amended: get_from_metadata_user_details returns ok only if the lookup
\* of get_metadata_user_details is ok and the metadata address has a passcode;
\* when the passcode is missing it returns not ok, with metadata address and
\* passcode None, and queues nothing
C33_LocalResolver ==
    result.fn = "get_from_metadata_user_details" =>
       /\ result.ok =>
             /\ get_metadata_user_details(result.email, result.encryption_name).ok
             /\ get_passcode(MetadataAddressOf(result.email),
                             result.encryption_name) # NoValue
       /\ PasscodeMissing(result.email, result.encryption_name) =>
             /\ calls = {}
             /\ ~result.ok
             /\ result.metadata_address = NoAddress
             /\ result.value = NoValue

\* the local metadata address has a verified, active key and no passcode for
\* the program: the resolver returned not ok and None twice
C33_Witness ==
    /\ result.fn = "get_from_metadata_user_details"
    /\ result.email = LocalUser
    /\ result.encryption_name \in EncryptionNames \ user_keys
    /\ PasscodeMissing(LocalUser, result.encryption_name)
    /\ ~result.ok
    /\ result.metadata_address = NoAddress
    /\ result.value = NoValue
    /\ calls = {}

\* the metadata address of the domain of an email has a program for which
\* get_metadata_user_details is ok
PeerSideOk(email) ==
    \E name \in get_encryption_names(MetadataAddressOf(email)) :
       get_metadata_user_details(email, name).ok

\* the metadata address of the domain of an email has a program for which the
\* lookup is ok and there is a passcode
LocalSideOk(email) ==
    \E name \in get_encryption_names(MetadataAddressOf(email)) :
       /\ get_metadata_user_details(email, name).ok
       /\ get_passcode(MetadataAddressOf(email), name) # NoValue

\* C34: is_ready_to_protect_metadata returns true only if encrypt_metadata is
\* on, a program of the recipient's metadata address resolves ok and a program
\* of the sender's metadata address resolves ok with a passcode; it returns
\* false when a user is None or a metadata address has no program
C34_ReadyToProtect ==
    result.fn = "is_ready_to_protect_metadata" =>
       /\ result.ok =>
             /\ options.encrypt_metadata
             /\ PeerSideOk(result.to_user)
             /\ LocalSideOk(result.email)
       /\ (\/ result.email = NoAddress
           \/ result.to_user = NoAddress
           \/ get_encryption_names(MetadataAddressOf(result.to_user)) = {}
           \/ get_encryption_names(MetadataAddressOf(result.email)) = {})
             => ~result.ok

\* a message from the local user to the peer: ready, although one program of
\* the peer's metadata address has no usable key
C34_Witness ==
    /\ result.fn = "is_ready_to_protect_metadata"
    /\ result.email = LocalUser
    /\ result.to_user = PeerUser
    /\ result.ok
    /\ \E name \in get_encryption_names(MetadataAddressOf(PeerUser)) :
          ~get_metadata_user_details(PeerUser, name).ok

\* the signers a history record names
Signers(h) == Range(h.private_signers) \cup Range(h.clear_signers)

\* the metadata address of the domain of the sender of the file n
SenderMetadataAddress(n) == get_metadata_address(parse_domain(packets[n].sender))

\* C35 as stated: the record of a privately signed message names the sender
\* and the metadata address of the sender's domain as signers; the record of a
\* message that is clear-signed and not privately signed names the metadata
\* address only
C35_TwoLayerSigners ==
    \A h \in BagToSet(history) :
       LET p == packets[h.packet]
       IN  /\ p.private_signed =>
                {p.sender, SenderMetadataAddress(h.packet)} \subseteq Signers(h)
           /\ (~p.private_signed /\ p.clear_signed) =>
                Signers(h) = {SenderMetadataAddress(h.packet)}

\* C35, amended: the record of a privately signed, encrypted message names the
\* sender and the metadata address; that of a message privately signed or
\* clear-signed but not encrypted names the metadata address only; that of an
\* encrypted message clear-signed and not privately signed names the sender only
C35_SignersByEncryption ==
    \A h \in BagToSet(history) :
       LET p == packets[h.packet]
       IN  /\ (p.private_signed /\ p.crypted) =>
                Signers(h) = {p.sender, SenderMetadataAddress(h.packet)}
           /\ ((p.private_signed \/ p.clear_signed) /\ ~p.crypted) =>
                Signers(h) = {SenderMetadataAddress(h.packet)}
           /\ (~p.private_signed /\ p.clear_signed /\ p.crypted) =>
                Signers(h) = {p.sender}

\* a record of a message that was privately signed and not encrypted: the
\* metadata address is its only signer
C35_Witness ==
    \E h \in BagToSet(history) :
       /\ packets[h.packet].private_signed
       /\ ~packets[h.packet].crypted
       /\ h.private_signers = <<SenderMetadataAddress(h.packet)>>
       /\ Signers(h) = {SenderMetadataAddress(h.packet)}

\* the files whose names lack MESSAGE_PREFIX or MESSAGE_SUFFIX
OtherFiles == {n \in Names : ~packets[n].prefix_suffix}

\* C36: an entry of the packet directory that is not a hidden directory stays
\* and nothing is bundled, relayed or reported for it; a file whose name lacks
\* the prefix or the suffix stays in its directory and is never selected,
\* relayed, bounced or recorded
C36_OthersUntouched ==
    /\ \A dirname \in dirs \cup dirnames :
          ~IsHiddenDirectory(dirname) =>
             /\ dirname \in dirs
             /\ to_domain # dirname
             /\ \A b \in relayed : b.domain # dirname
             /\ \A w \in wrapped : w.domain # dirname
             /\ \A notice \in notices : notice.domain # dirname
    /\ \A n \in OtherFiles :
          /\ n \in queue
          /\ n \notin Range(bundled_messages)
          /\ n \notin included \cup deleted
          /\ \A i \in DOMAIN parts : parts[i].packet # n
          /\ \A b \in relayed : n \notin Range(b.packets)
          /\ bounces[n] = 0
          /\ RecordsFor(history, n) = {}

\* a pass relayed and removed a packet of a directory that also holds an
\* oversize file without the prefix, and went past both other entries
C36_Witness ==
    /\ pc = "domains"
    /\ dirnames = {}
    /\ OtherEntries \subseteq dirs
    /\ \E n \in OtherFiles, m \in deleted :
          /\ packets[n].size > bundled_message_max_size
          /\ Domain(n) = Domain(m)
          /\ n \in queue
          /\ n < m

\* the line of a keyword is not in what parse_bundled_message was given
MissingLine(k) == ~result.has_content \/ ~result.start \/ k \notin result.kept

\* C37: when parse_bundled_message has returned for None, for bytes without
\* START_ADDENDUM or for an addendum that lacks lines, every item whose line
\* is missing has its default: None for From, To and Verification, False
\* for the four flags, the empty list for CryptedWith
C37_ParserDefaults ==
    result.fn = "parse_bundled_message" =>
       LET a == result.addendum
       IN  /\ \A k \in {"From", "To", "Verification"} :
                 MissingLine(k) => k \in a.none
           /\ MissingLine("Crypted") => (a.Crypted = FALSE /\ "Crypted" \notin a.none)
           /\ MissingLine("PrivateSigned") => a.PrivateSigned = FALSE
           /\ MissingLine("ClearSigned") => a.ClearSigned = FALSE
           /\ MissingLine("DkimSigned") => a.DkimSigned = FALSE
           /\ MissingLine("CryptedWith") =>
                 (a.CryptedWith = <<>> /\ "CryptedWith" \notin a.none)

\* C38: send_metadata_key returns True only when prep_metadata_key_message
\* gave a message and send_message relayed it; when there is no message or the
\* relay fails it returns False
C38_KeySentOnlyIfRelayed ==
    result.fn = "send_metadata_key" =>
       /\ result.ok => (result.message /\ result.relay = "sent")
       /\ (~result.message \/ result.relay # "sent") => ~result.ok

\* C39: the files in self.bundled_messages are files of the directory being
\* bundled, listed for this bundle; a step that records or removes files
\* touches only such files, and none of a bundle the relay refused earlier in
\* the pass
C39_PerDomainState ==
    /\ [](pc \in {"send", "record"} =>
            \A n \in Range(bundled_messages) : Domain(n) = to_domain /\ n \in listed)
    /\ [][\A n \in Names :
             (n \in queue \ queue' \/ RecordsFor(history', n) # RecordsFor(history, n))
                => (/\ pc = "record"
                    /\ Domain(n) = to_domain
                    /\ n \in Range(bundled_messages)
                    /\ n \notin unsent.now)]_vars

\* the bundle of one domain was refused and that of another domain, built
\* later in the same pass, was relayed and is about to be recorded
C39_Witness ==
    /\ pc = "record"
    /\ bundled_messages # <<>>
    /\ unsent.now # {}
    /\ \A n \in unsent.now : Domain(n) # to_domain /\ n \in queue

\* a bundle of the pass was refused by the relay or came back not encrypted
SomeBundleFailed ==
    \/ unsent.now # {}
    \/ \E w \in wrapped : w.outcome = "not crypted"

\* C40: a pass that ends without an exception sets date_queue_last_active to
\* now although a bundle was refused or not encrypted; while fewer sleep
\* periods than the interval have passed since then no pass starts, so the
\* refused files stay in the queue, unselected
C40_FailedPassSetsTimestamp ==
    /\ [][(/\ pc = "domains"
           /\ pc' = "sleep"
           /\ UnableNotice \notin notices'
           /\ SomeBundleFailed)
             => (elapsed' = 0 /\ unsent' = unsent /\ queue' = queue)]_vars
    /\ [][(/\ pc \in {"sleep", "wake"}
           /\ unsent.now # {}
           /\ elapsed' < Frequency(options.bundle_frequency))
             => (/\ pc' \in {"sleep", "wake"}
                 /\ unsent'.now = unsent.now
                 /\ unsent.now \subseteq queue'
                 /\ included' = included
                 /\ history' = history)]_vars

\* an hour after a daily pass in which the relay refused the bundle: the tick
\* is not ready and the refused file waits in the queue
C40_Witness ==
    /\ pc = "wake"
    /\ options.bundle_frequency = "daily"
    /\ elapsed = PERIOD
    /\ ~ready_to_run
    /\ unsent.now # {}
    /\ unsent.now \subseteq queue \cap finalized
====
